---------------------------- MODULE Spec2Model ----------------------------
(***************************************************************************)
(* Model of uhttp_transfer_encoding (src/src/lib.rs).                      *)
(*                                                                         *)
(* A string (&str) is a sequence of characters, each character being its   *)
(* Unicode code point.  A borrowed slice of a string h is a pair of        *)
(* offsets lo..hi into h (0-based, half open), as a Rust &str is a         *)
(* pointer and a length into the buffer it borrows from.                   *)
(***************************************************************************)
EXTENDS Naturals, Sequences, FiniteSets

VARIABLES
    s,          \* iterator: the header value handed to transfer_encodings
    start,      \* iterator: Split's front cursor (offset into s)
    end,        \* iterator: Split's back cursor (offset into s)
    finished,   \* iterator: Split's finished flag
    log,        \* iterator: what each call of next() returned, in order
    tok,        \* direct call: the token handed to TransferEncoding::new
    res,        \* direct call: what TransferEncoding::new(tok) returned
    fed,        \* direct call: the trimmed token fed to a second call
    again       \* direct call: what the second call returned

vars == <<s, start, end, finished, log, tok, res, fed, again>>

-----------------------------------------------------------------------------
(* Bounds of the model *)

\* longest run of whitespace put before and after a token
MaxPad == 1
\* longest token drawn from all strings over Alphabet
MaxLen == 3
\* most comma-separated segments in a header value
MaxSegs == 3
\* most calls of next() made after the first None
MaxExtraPulls == 2

-----------------------------------------------------------------------------
(* Characters and strings *)

\* the delimiter of s.split(',')
Comma == 44

\* the names matched by from_str
NameChunked == <<99, 104, 117, 110, 107, 101, 100>>
NameCompress == <<99, 111, 109, 112, 114, 101, 115, 115>>
NameDeflate == <<100, 101, 102, 108, 97, 116, 101>>
NameGzip == <<103, 122, 105, 112>>

StdEncodings == {"Chunked", "Compress", "Deflate", "Gzip"}

NameOf(enc) ==
    CASE enc = "Chunked" -> NameChunked
      [] enc = "Compress" -> NameCompress
      [] enc = "Deflate" -> NameDeflate
      [] enc = "Gzip" -> NameGzip

\* char::is_whitespace: the Unicode White_Space property
IsWhitespace(c) ==
    \/ c \in 9..13
    \/ c = 32
    \/ c = 133
    \/ c = 160
    \/ c = 5760
    \/ c \in 8192..8202
    \/ c \in {8232, 8233, 8239, 8287, 12288}

\* the UTF-8 encoding of one character (code points below U+10000)
Utf8(c) ==
    IF c < 128 THEN <<c>>
    ELSE IF c < 2048 THEN <<192 + (c \div 64), 128 + (c % 64)>>
    ELSE <<224 + (c \div 4096), 128 + ((c \div 64) % 64), 128 + (c % 64)>>

RECURSIVE AsBytes(_)
\* str::as_bytes: the bytes of a string
AsBytes(str) ==
    IF str = <<>> THEN <<>> ELSE Utf8(Head(str)) \o AsBytes(Tail(str))

\* the characters of h at offsets lo..hi
Slice(h, lo, hi) == SubSeq(h, lo + 1, hi)

-----------------------------------------------------------------------------
(* StdTransferEncoding::from_str *)

\* u8::to_ascii_lowercase
ToAsciiLowercase(b) == IF b \in 65..90 THEN b + 32 ELSE b

\* a comparison that forgets to fold case
EqBytesExact(a, b) == a = b

\* [u8]::eq_ignore_ascii_case
EqIgnoreAsciiCaseBytes(a, b) ==
    /\ Len(a) = Len(b)
    /\ \A i \in 1..Len(a) : ToAsciiLowercase(a[i]) = ToAsciiLowercase(b[i])

\* char::to_lowercase on the characters the model draws: the Unicode mapping
ToLowercase(c) ==
    IF c \in 65..90 THEN c + 32
    ELSE IF c = 8490 THEN 107
    ELSE IF c = 198 THEN 230
    ELSE IF c = 216 THEN 248
    ELSE c

\* a comparison that folds case the Unicode way, character by character
EqIgnoreCaseUnicode(x, y) ==
    /\ Len(x) = Len(y)
    /\ \A i \in 1..Len(x) : ToLowercase(x[i]) = ToLowercase(y[i])

\* str::eq_ignore_ascii_case
EqIgnoreAsciiCase(x, y) == EqIgnoreAsciiCaseBytes(AsBytes(x), AsBytes(y))

\* from_str: Ok(enc) is the name of the variant, Err(()) is "Err"
FromStr(x) ==
    IF EqIgnoreAsciiCase(x, NameChunked) THEN "Chunked"
    ELSE IF EqIgnoreAsciiCase(x, NameCompress) THEN "Compress"
    ELSE IF EqIgnoreAsciiCase(x, NameDeflate) THEN "Deflate"
    ELSE IF EqIgnoreAsciiCase(x, NameGzip) THEN "Gzip"
    ELSE "Err"

-----------------------------------------------------------------------------
(* str::trim, as TransferEncoding::new calls it *)

RECURSIVE NextReject(_, _, _)
\* the offset of the first character of h in lo..hi that is not whitespace,
\* or hi when there is none
NextReject(h, lo, hi) ==
    IF lo < hi /\ IsWhitespace(h[lo + 1]) THEN NextReject(h, lo + 1, hi) ELSE lo

RECURSIVE NextRejectBack(_, _, _)
\* the offset just past the last character of h in lo..hi that is not
\* whitespace, or lo when there is none
NextRejectBack(h, lo, hi) ==
    IF lo < hi /\ IsWhitespace(h[hi]) THEN NextRejectBack(h, lo, hi - 1) ELSE hi

\* a trim that strips the front only
TrimStartOnly(h, lo, hi) ==
    LET i == NextReject(h, lo, hi)
    IN  IF i = hi THEN [lo |-> lo, hi |-> lo] ELSE [lo |-> i, hi |-> hi]

\* a trim that strips at most one whitespace character from each end
TrimOnce(h, lo, hi) ==
    LET i == IF lo < hi /\ IsWhitespace(h[lo + 1]) THEN lo + 1 ELSE lo
    IN  [lo |-> i, hi |-> IF i < hi /\ IsWhitespace(h[hi]) THEN hi - 1 ELSE hi]

RECURSIVE AsciiReject(_, _, _)
\* a trim that strips the characters u8::is_ascii_whitespace accepts only
AsciiReject(h, lo, hi) ==
    IF lo < hi /\ h[lo + 1] \in {9, 10, 12, 13, 32}
    THEN AsciiReject(h, lo + 1, hi) ELSE lo

RECURSIVE AsciiRejectBack(_, _, _)
AsciiRejectBack(h, lo, hi) ==
    IF lo < hi /\ h[hi] \in {9, 10, 12, 13, 32}
    THEN AsciiRejectBack(h, lo, hi - 1) ELSE hi

TrimAsciiOnly(h, lo, hi) ==
    LET i == AsciiReject(h, lo, hi)
    IN  IF i = hi THEN [lo |-> lo, hi |-> lo]
        ELSE [lo |-> i, hi |-> AsciiRejectBack(h, i + 1, hi)]

\* str::trim on the slice lo..hi of h: the slice from the first to the last
\* character that is not whitespace; the empty slice at lo when all are
Trim(h, lo, hi) ==
    LET i == NextReject(h, lo, hi)
    IN  IF i = hi THEN [lo |-> lo, hi |-> lo]
        ELSE [lo |-> i, hi |-> NextRejectBack(h, i + 1, hi)]

-----------------------------------------------------------------------------
(* TransferEncoding *)

Std(enc) == [tag |-> "Std", enc |-> enc, lo |-> 0, hi |-> 0]
Other(lo, hi) == [tag |-> "Other", enc |-> "-", lo |-> lo, hi |-> hi]
\* Option::None, and a call not made yet
None == [tag |-> "None", enc |-> "-", lo |-> 0, hi |-> 0]

\* TransferEncoding::new on the slice lo..hi of h
New(h, lo, hi) ==
    LET t == Trim(h, lo, hi)
        r == FromStr(Slice(h, t.lo, t.hi))
    IN  IF r # "Err" THEN Std(r) ELSE Other(t.lo, t.hi)

\* the value of an item as PartialEq compares it: an Other by its text
Value(h, item) ==
    IF item.tag = "Other"
    THEN [tag |-> "Other", enc |-> "-", name |-> Slice(h, item.lo, item.hi)]
    ELSE [tag |-> item.tag, enc |-> item.enc, name |-> <<>>]

-----------------------------------------------------------------------------
(* The tokens handed to TransferEncoding::new *)

\* all strings over chars of length at most n
StringsUpTo(chars, n) == UNION {[1..k -> chars] : k \in 0..n}

\* every mix of upper and lower case of a lower-case name
CaseMixes(name) ==
    {[i \in 1..Len(name) |-> IF i \in m THEN name[i] - 32 ELSE name[i]] :
        m \in SUBSET (1..Len(name))}

\* space, tab, CR, LF
PlainWs == {32, 9, 13, 10}
\* the whitespace put around tokens: PlainWs, U+00A0 and U+2003
PadChars == PlainWs \cup {160, 8195}

\* tokens that are no standard name, and the four names
Cores ==
    { <<>>,
      NameChunked, NameCompress, NameDeflate, NameGzip,
      <<99, 104, 117, 110, 32, 32, 107, 101, 100>>,
      <<99, 104, 117, 110, 9, 107, 101, 100>>,
      <<99, 104, 117, 110, 8490, 101, 100>>,
      <<67, 72, 85, 78, 8490, 69, 68>>,
      <<99, 111, 109, 112, 114, 101, 383, 115>>,
      <<103, 122, 160, 105, 112>>,
      <<103, 122, 105>>,
      <<103, 122, 105, 112, 112>>,
      <<103, 122, 105, 112, 44>>,
      <<198, 216, 1041, 1044, 10084>>,
      <<99, 117, 115, 116, 111, 109, 45, 101, 110, 99>>,
      <<85, 78, 107, 110, 111, 119, 110>>,
      <<120>> }

\* the characters of the short tokens
Alphabet == {32, 160, 44, 103, 71, 198}

\* every case mix of a standard name between runs of spaces and tabs
MixedTokens ==
    {a \o m \o b :
        a \in StringsUpTo({32, 9}, MaxPad),
        m \in UNION {CaseMixes(NameOf(e)) : e \in StdEncodings},
        b \in StringsUpTo({32, 9}, MaxPad)}

\* every core between runs of whitespace
PaddedTokens ==
    {a \o c \o b :
        a \in StringsUpTo(PadChars, MaxPad),
        c \in Cores,
        b \in StringsUpTo(PadChars, MaxPad)}

ShortTokens == StringsUpTo(Alphabet, MaxLen)

Tokens == MixedTokens \cup PaddedTokens \cup ShortTokens

-----------------------------------------------------------------------------
(* Direct calls of TransferEncoding::new *)

InitNew ==
    /\ tok \in Tokens
    /\ res = None
    /\ fed = <<>>
    /\ again = None
    /\ s = <<>>
    /\ start = 0
    /\ end = 0
    /\ finished = FALSE
    /\ log = <<>>

\* TransferEncoding::new(tok)
CallNew ==
    /\ res = None
    /\ res' = New(tok, 0, Len(tok))
    /\ UNCHANGED <<s, start, end, finished, log, tok, fed, again>>

\* the caller hands the trimmed token (the payload of an Other) to
\* TransferEncoding::new once more
Reparse ==
    /\ res # None
    /\ again = None
    /\ LET t == Trim(tok, 0, Len(tok))
           p == IF res.tag = "Other" THEN Slice(tok, res.lo, res.hi)
                ELSE Slice(tok, t.lo, t.hi)
       IN  /\ fed' = p
           /\ again' = New(p, 0, Len(p))
    /\ UNCHANGED <<s, start, end, finished, log, tok, res>>

NextNew == CallNew \/ Reparse

SpecNew == InitNew /\ [][NextNew]_vars

-----------------------------------------------------------------------------
(* s.split(',').rev().map(TransferEncoding::new) *)

RECURSIVE CommaBefore(_, _, _)
\* the offset just past the last ',' of h in lo..hi, or lo when there is none
\* there (told apart from a match by the character before the offset)
CommaBefore(h, lo, hi) ==
    IF lo < hi /\ h[hi] # Comma THEN CommaBefore(h, lo, hi - 1) ELSE hi

RECURSIVE CommaAfter(_, _, _)
\* the offset of the first ',' of h in lo..hi, or hi when there is none
CommaAfter(h, lo, hi) ==
    IF lo < hi /\ h[lo + 1] # Comma THEN CommaAfter(h, lo + 1, hi) ELSE lo

RECURSIVE RunStart(_, _, _)
\* the offset at which the run of ',' ending at offset a + 1 starts
RunStart(h, lo, a) ==
    IF lo < a /\ h[a] = Comma THEN RunStart(h, lo, a - 1) ELSE a

\* a matcher that takes a run of ',' for one delimiter
NextMatchBackRuns(h, lo, hi) ==
    LET b == CommaBefore(h, lo, hi)
    IN  IF b > lo
        THEN [found |-> TRUE, a |-> RunStart(h, lo, b - 1), b |-> b]
        ELSE [found |-> FALSE, a |-> lo, b |-> lo]

\* the searcher's next_match_back: the last ',' of h in lo..hi as the
\* offsets a..b it occupies
NextMatchBack(h, lo, hi) ==
    LET b == CommaBefore(h, lo, hi)
    IN  IF b > lo
        THEN [found |-> TRUE, a |-> b - 1, b |-> b]
        ELSE [found |-> FALSE, a |-> lo, b |-> lo]

\* the result of one call on the Split: the segment returned (some) or
\* None, and the fields of the Split after it
SplitResult(some, lo, hi, st, e, fin) ==
    [some |-> some, lo |-> lo, hi |-> hi, start |-> st, end |-> e, finished |-> fin]

\* Split::next, the front end of the iterator: what a missing rev() calls
SplitNext(h, st, e, fin) ==
    IF fin THEN SplitResult(FALSE, 0, 0, st, e, fin)
    ELSE LET a == CommaAfter(h, st, e)
         IN  IF a < e
             THEN SplitResult(TRUE, st, a, a + 1, e, fin)
             ELSE SplitResult(TRUE, st, e, st, e, TRUE)

\* a next_back that never sets finished
SplitNextBackNoFinish(h, st, e, fin) ==
    IF fin THEN SplitResult(FALSE, 0, 0, st, e, fin)
    ELSE LET m == NextMatchBack(h, st, e)
         IN  IF m.found
             THEN SplitResult(TRUE, m.b, e, st, m.a, fin)
             ELSE SplitResult(TRUE, st, e, st, e, fin)

\* a next_back that ends without an item when nothing is left (the way
\* split_terminator drops an empty last piece)
SplitNextBackDropEmpty(h, st, e, fin) ==
    IF fin THEN SplitResult(FALSE, 0, 0, st, e, fin)
    ELSE LET m == NextMatchBack(h, st, e)
         IN  IF m.found
             THEN SplitResult(TRUE, m.b, e, st, m.a, fin)
             ELSE IF st = e THEN SplitResult(FALSE, 0, 0, st, e, TRUE)
             ELSE SplitResult(TRUE, st, e, st, e, TRUE)

\* a next_back that cuts the segment at the start of the match
SplitNextBackKeepComma(h, st, e, fin) ==
    IF fin THEN SplitResult(FALSE, 0, 0, st, e, fin)
    ELSE LET m == NextMatchBack(h, st, e)
         IN  IF m.found
             THEN SplitResult(TRUE, m.a, e, st, m.a, fin)
             ELSE SplitResult(TRUE, st, e, st, e, TRUE)

\* Split::next_back, which Rev::next calls: None once finished; else the
\* segment after the last ',' before end, end moving to that ','; with no
\* ',' left, the rest start..end, and finished
SplitNextBack(h, st, e, fin) ==
    IF fin THEN SplitResult(FALSE, 0, 0, st, e, fin)
    ELSE LET m == NextMatchBack(h, st, e)
         IN  IF m.found
             THEN SplitResult(TRUE, m.b, e, st, m.a, fin)
             ELSE SplitResult(TRUE, st, e, st, e, TRUE)

RECURSIVE Join(_)
\* the segments of segs with a ',' between each two
Join(segs) ==
    IF Len(segs) = 1 THEN segs[1]
    ELSE segs[1] \o <<Comma>> \o Join(Tail(segs))

\* the segments header values are made of: none holds a ','
SegTokens ==
    { <<>>, <<32>>, <<160>>,
      NameGzip, NameChunked, NameCompress, NameDeflate,
      <<9, 71, 90, 105, 112, 32>>,
      <<32, 120>>,
      <<97, 32, 98>> }

Inputs == {Join(segs) : segs \in UNION {[1..n -> SegTokens] : n \in 1..MaxSegs}}

\* how many entries of a log are None
Nones(l) == Cardinality({i \in DOMAIN l : l[i].tag = "None"})

\* transfer_encodings(s)
Init ==
    /\ s \in Inputs
    /\ start = 0
    /\ end = Len(s)
    /\ finished = FALSE
    /\ log = <<>>
    /\ tok = <<>>
    /\ res = None
    /\ fed = <<>>
    /\ again = None

\* one call of next() on the iterator transfer_encodings returned
Pull ==
    /\ Nones(log) < MaxExtraPulls
    /\ LET r == SplitNextBack(s, start, end, finished)
       IN  /\ start' = r.start
           /\ end' = r.end
           /\ finished' = r.finished
           /\ log' = Append(log, IF r.some THEN New(s, r.lo, r.hi) ELSE None)
    /\ UNCHANGED <<s, tok, res, fed, again>>

Next == Pull

Spec == Init /\ [][Next]_vars

-----------------------------------------------------------------------------
(* Claims about TransferEncoding::new, checked under SpecNew *)

\* t is name in some mix of upper and lower case ASCII letters
IsCaseMix(t, name) ==
    /\ Len(t) = Len(name)
    /\ \A i \in 1..Len(name) : t[i] = name[i] \/ t[i] = name[i] - 32

\* t is a case mix of name between two runs of characters of ws
IsPaddedName(t, name, ws) ==
    \E i \in 0..Len(t) :
        /\ i + Len(name) <= Len(t)
        /\ \A k \in 1..i : t[k] \in ws
        /\ IsCaseMix(SubSeq(t, i + 1, i + Len(name)), name)
        /\ \A k \in (i + Len(name) + 1)..Len(t) : t[k] \in ws

\* the whitespace characters the tokens of the model are made of
WsDrawn == {c \in PadChars \cup Alphabet : IsWhitespace(c)}

\* C3: a standard name in any mix of case, with any run of space, tab, CR
\* and LF before and after it, is classified as Std of its variant, never
\* as Other.
C3_PaddedNameIsStd ==
    \A e \in StdEncodings :
        (res # None /\ IsPaddedName(tok, NameOf(e), PlainWs)) => res = Std(e)

C3_Witness ==
    /\ res = Std("Gzip")
    /\ Len(tok) = 6
    /\ tok[1] = 9
    /\ tok[2] = 71
    /\ tok[3] = 122
    /\ tok[6] = 32

\* C4: a token whose trimmed form is no standard name in any case is
\* returned as Other(p), p being the token less its leading and trailing
\* whitespace: what is cut off is whitespace only, p neither begins nor
\* ends with whitespace, and p is a contiguous run of the token, so its
\* interior, whitespace included, is kept as it is.
C4_OtherIsTrimmedToken ==
    (res # None /\ \A e \in StdEncodings : ~IsPaddedName(tok, NameOf(e), WsDrawn))
    => /\ res.tag = "Other"
       /\ res.lo <= res.hi
       /\ res.hi <= Len(tok)
       /\ \A k \in 1..res.lo : IsWhitespace(tok[k])
       /\ \A k \in (res.hi + 1)..Len(tok) : IsWhitespace(tok[k])
       /\ res.lo < res.hi =>
             /\ ~IsWhitespace(tok[res.lo + 1])
             /\ ~IsWhitespace(tok[res.hi])

C4_Witness ==
    /\ res.tag = "Other"
    /\ res.lo = 1
    /\ res.hi = Len(tok) - 1
    /\ Slice(tok, res.lo, res.hi) = <<99, 104, 117, 110, 9, 107, 101, 100>>

\* C5 as stated: a token that begins or ends with a non-ASCII character,
\* a non-ASCII whitespace character included, keeps that character in the
\* Other payload.
C5_Original ==
    (res.tag = "Other" /\ tok # <<>>)
    => /\ tok[1] > 127 => (res.lo = 0 /\ res.hi > 0)
       /\ tok[Len(tok)] > 127 => (res.hi = Len(tok) /\ res.lo < res.hi)

\* the whitespace characters above U+007F
NonAsciiWs == {133, 160, 5760, 8232, 8233, 8239, 8287, 12288} \cup (8192..8202)

\* C5, amended: trimming removes Unicode whitespace.  A token that begins
\* (ends) with a non-ASCII character keeps it in the Other payload exactly
\* when the character is no whitespace character; U+00A0 and U+2003 at
\* either end are stripped.
C5_TrimIsUnicode ==
    (res.tag = "Other" /\ tok # <<>>)
    => /\ tok[1] > 127 =>
             ((res.lo = 0 /\ res.hi > 0) <=> tok[1] \notin NonAsciiWs)
       /\ tok[Len(tok)] > 127 =>
             ((res.hi = Len(tok) /\ res.lo < res.hi) <=> tok[Len(tok)] \notin NonAsciiWs)

C5_Witness ==
    /\ res.tag = "Other"
    /\ Len(tok) = 3
    /\ tok[1] = 160
    /\ tok[2] = 120
    /\ tok[3] = 8195
    /\ res.lo = 1
    /\ res.hi = 2

\* ASCII case folding of one character
FoldAscii(c) == IF c \in 65..90 THEN c + 32 ELSE c

\* t and name have the same number of characters and agree character by
\* character after ASCII case folding
CharMatch(t, name) ==
    /\ Len(t) = Len(name)
    /\ \A i \in 1..Len(name) : FoldAscii(t[i]) = name[i]

\* the token less the whitespace at its two ends
Trimmed(t) ==
    LET keep == {k \in 1..Len(t) : ~IsWhitespace(t[k])}
    IN  IF keep = {} THEN <<>>
        ELSE SubSeq(t, CHOOSE k \in keep : \A j \in keep : k <= j,
                       CHOOSE k \in keep : \A j \in keep : k >= j)

\* C7: the trimmed token is classified as a standard encoding exactly when
\* it has as many characters as the name and each equals the name's after
\* ASCII case folding; U+212A for k, U+017F for s do not match.
C7_AsciiFoldOnly ==
    res # None =>
        \A e \in StdEncodings : (res = Std(e)) <=> CharMatch(Trimmed(tok), NameOf(e))

C7_Witness ==
    /\ res.tag = "Other"
    /\ Slice(tok, res.lo, res.hi) = <<67, 72, 85, 78, 8490, 69, 68>>

\* C8: parsing the trimmed token once more gives the same value; the
\* payload of an Other comes back whole, as Other of itself.
C8_Idempotent ==
    again # None =>
        /\ Value(fed, again) = Value(tok, res)
        /\ res.tag = "Other" => again = Other(0, Len(fed))

C8_Witness ==
    /\ again.tag = "Other"
    /\ Len(fed) > 0
    /\ Len(fed) < Len(tok)
    /\ IsWhitespace(tok[1])
    /\ IsWhitespace(tok[2])

-----------------------------------------------------------------------------
(* Claims about transfer_encodings, checked under Spec *)

\* the offsets of the ',' characters of h (1-based)
CommaAt(h) == {p \in 1..Len(h) : h[p] = Comma}

\* the number of ',' characters of h
NumCommas(h) == Cardinality(CommaAt(h))

\* the k-th segment of h in listed order, k in 1..NumCommas(h)+1, as the
\* offsets lo..hi: it runs from the (k-1)-th ',' to the k-th
Segment(h, k) ==
    LET before == {p \in CommaAt(h) : Cardinality({q \in CommaAt(h) : q <= p}) = k - 1}
        after == {p \in CommaAt(h) : Cardinality({q \in CommaAt(h) : q <= p}) = k}
    IN  [lo |-> IF before = {} THEN 0 ELSE CHOOSE p \in before : TRUE,
         hi |-> IF after = {} THEN Len(h) ELSE (CHOOSE p \in after : TRUE) - 1]

\* the text of the k-th segment of h
SegmentText(h, k) == Slice(h, Segment(h, k).lo, Segment(h, k).hi)

\* TransferEncoding::new(t) of a string t of its own, as a value
NewValue(t) == Value(t, New(t, 0, Len(t)))

\* the entries of the log that are items
ItemsOf(l) == {i \in DOMAIN l : l[i].tag # "None"}

\* C1: the i-th item pulled is TransferEncoding::new of the segment listed
\* i-th from the end: items come in reverse of listed order.
C1_ReverseOrder ==
    LET n == NumCommas(s) + 1
    IN  \A i \in DOMAIN log :
            i <= n => Value(s, log[i]) = NewValue(SegmentText(s, n + 1 - i))

C1_Witness ==
    /\ NumCommas(s) = 2
    /\ Len(log) = 3
    /\ log[1] = Std("Compress")
    /\ log[2] = Std("Gzip")
    /\ log[3] = Std("Chunked")

\* C2: an input with k commas yields k+1 items, never more, and exactly
\* k+1 by the time None is returned; empty segments count.
C2_CountIsCommasPlusOne ==
    /\ Cardinality(ItemsOf(log)) <= NumCommas(s) + 1
    /\ Nones(log) > 0 => Cardinality(ItemsOf(log)) = NumCommas(s) + 1

C2_Witness ==
    /\ s = <<Comma, Comma>>
    /\ Nones(log) > 0
    /\ Cardinality(ItemsOf(log)) = 3

\* the characters of h are all whitespace or ','
OnlyWsAndCommas(h) == \A k \in 1..Len(h) : IsWhitespace(h[k]) \/ h[k] = Comma

\* the value Other("")
OtherEmpty == [tag |-> "Other", enc |-> "-", name |-> <<>>]

\* C6: every call returns a well-formed value: the first call an item, an
\* item a Std of one of the four variants or an Other whose slice lies in
\* s.  The empty input yields the one item Other(""), and an input of
\* whitespace and commas yields Other("") items only.
C6_NoFailure ==
    /\ \A i \in DOMAIN log :
          \/ log[i] = None /\ i > 1
          \/ log[i].tag = "Std" /\ log[i].enc \in StdEncodings
          \/ log[i].tag = "Other" /\ log[i].lo <= log[i].hi /\ log[i].hi <= Len(s)
    /\ (s = <<>> /\ log # <<>>) =>
          /\ Value(s, log[1]) = OtherEmpty
          /\ \A i \in DOMAIN log : i > 1 => log[i] = None
    /\ OnlyWsAndCommas(s) =>
          \A i \in ItemsOf(log) : Value(s, log[i]) = OtherEmpty

C6_Witness ==
    /\ s = <<>>
    /\ Len(log) = 2
    /\ log[1] = Other(0, 0)
    /\ log[2] = None

\* C9: the first (number of commas + 1) calls return an item each, and
\* every call after them returns None: once None, None ever after.
C9_ActiveThenExhausted ==
    \A j \in DOMAIN log : (log[j].tag # "None") <=> (j <= NumCommas(s) + 1)

C9_Witness ==
    /\ NumCommas(s) = 1
    /\ Len(log) = 4
    /\ log[2].tag # "None"
    /\ log[3] = None
    /\ log[4] = None
    /\ finished

\* C10: the payload of an Other is a slice of s inside the segment it was
\* made from, so it holds no ','; the payloads of later items lie wholly
\* before those of earlier items.
C10_PayloadInsideSegment ==
    LET n == NumCommas(s) + 1
    IN  \A i \in DOMAIN log :
            log[i].tag = "Other" =>
                /\ i <= n
                /\ Segment(s, n + 1 - i).lo <= log[i].lo
                /\ log[i].lo <= log[i].hi
                /\ log[i].hi <= Segment(s, n + 1 - i).hi
                /\ \A k \in (log[i].lo + 1)..log[i].hi : s[k] # Comma
                /\ \A j \in DOMAIN log :
                      (i < j /\ log[j].tag = "Other") => log[j].hi < log[i].lo

C10_Witness ==
    /\ Len(log) = 2
    /\ log[1].tag = "Other"
    /\ log[2].tag = "Other"
    /\ log[1].lo < log[1].hi
    /\ log[2].lo < log[2].hi
    /\ log[2].hi < log[1].lo

=============================================================================
